---- MODULE Spec2Model ----
(***************************************************************************)
(* CryptoTradingAgent (src/crypto_monitor.py): the polling loop of         *)
(* run_agent, the per-ticker bounded price history, the change and         *)
(* volatility statistics and the threshold signal chain.                   *)
(*                                                                         *)
(* Numbers.  Prices are naturals.  A percentage change is kept as the      *)
(* exact fraction num/den (den > 0) and compared to a threshold k by       *)
(* num <= k * den; the volatility (std_dev / avg_price * 100, never        *)
(* negative for positive prices) is kept as the exact fraction of its      *)
(* square, so "volatility > 15" is num > 225 * den.  Floating-point        *)
(* rounding of the source's arithmetic is not modelled.                    *)
(*                                                                         *)
(* Time.  datetime.now() is the counter `now`, which Sleep advances: all   *)
(* the timestamps taken within one pass of the loop are equal.             *)
(*                                                                         *)
(* Steps.  Each statement of the loop body of run_agent is one action; a   *)
(* method it calls runs within that action.  KeyboardInterrupt and an      *)
(* unexpected exception are delivered between those statements.            *)
(***************************************************************************)
EXTENDS Integers, Sequences, FiniteSets, TLC

VARIABLES
    loaded_config,   \* load_config's local loaded_config
    config,          \* self.config, as load_config returned it
    state,           \* self.state
    disk,            \* the content of agent_state.json
    current_prices,  \* run_agent's local current_prices
    signals,         \* run_agent's local signals
    pc,              \* the position in run_agent
    now,             \* datetime.now()
    exit_code        \* the exit status of the process

vars == <<loaded_config, config, state, disk, current_prices, signals, pc, now, exit_code>>

-----------------------------------------------------------------------------
(* Bounds of the model *)

MaxCycles == 3          \* passes of the while loop
MaxCap == 2             \* largest max_history_length tried

(* config['coins'].values(), in the order of the dict *)
TickerOrder == <<"BTC", "ETH">>
Tickers == {TickerOrder[i] : i \in 1..Len(TickerOrder)}

(* the prices the feed may report *)
Prices == {50, 100}

(* thresholds['drop_alert'] and thresholds['surge_alert']: the defaults *)
DropAlerts == {-5}
SurgeAlerts == {10}

(* a wider feed, of the first ticker alone, and wider thresholds *)
SignalPrices == {0, 50, 61, 89, 94, 100}
SignalDropAlerts == {-6, -5}
SignalSurgeAlerts == {10, 22}

-----------------------------------------------------------------------------
(* Values *)

None == [none |-> TRUE]                 \* Python's None for a map
Never == 0                              \* None for last_check; clock values are >= 1
NoFile == [nofile |-> TRUE]             \* agent_state.json does not exist
Running == -1                           \* the process has not exited

EmptyMap == [t \in {} |-> 0]

Maps == UNION {[D -> Prices] : D \in SUBSET Tickers}
SignalMaps == UNION {[D -> SignalPrices] : D \in SUBSET {TickerOrder[1]}}

Configs ==
    [max_history_length : 0..MaxCap,
     drop_alert : DropAlerts,
     surge_alert : SurgeAlerts,
     enable_surge_alerts : BOOLEAN,
     enable_volatility_tracking : BOOLEAN]

SignalConfigs ==
    [max_history_length : 0..MaxCap,
     drop_alert : SignalDropAlerts,
     surge_alert : SignalSurgeAlerts,
     enable_surge_alerts : BOOLEAN,
     enable_volatility_tracking : BOOLEAN]

FreshState(t) ==
    [previous_prices |-> EmptyMap,
     price_history |-> EmptyMap,
     signals_generated |-> <<>>,
     last_check |-> Never,
     total_alerts |-> 0,
     agent_start_time |-> t]

-----------------------------------------------------------------------------
(* Statistics *)

(* the change as a ratio, not multiplied by 100 *)
calculate_percentage_change_as_ratio(old_price, new_price) ==
    IF old_price = 0
    THEN [num |-> 0, den |-> 1]
    ELSE [num |-> new_price - old_price, den |-> old_price]

(* a rise from nothing counted as a rise of 100 percent *)
calculate_percentage_change_full_rise(old_price, new_price) ==
    IF old_price = 0
    THEN [num |-> 100, den |-> 1]
    ELSE [num |-> (new_price - old_price) * 100, den |-> old_price]

(* lines 105-109 *)
calculate_percentage_change(old_price, new_price) ==
    IF old_price = 0
    THEN [num |-> 0, den |-> 1]
    ELSE [num |-> (new_price - old_price) * 100, den |-> old_price]

(* change <= k and change >= k for an integer k *)
ChangeLE(change, k) == change.num <= k * change.den
ChangeGE(change, k) == change.num >= k * change.den

RECURSIVE SumPrices(_)
SumPrices(h) == IF h = <<>> THEN 0 ELSE h[1].price + SumPrices(Tail(h))

RECURSIVE SumSquares(_)
SumSquares(h) ==
    IF h = <<>> THEN 0 ELSE h[1].price * h[1].price + SumSquares(Tail(h))

(* With n prices of sum S and sum of squares Q2: avg = S/n,                *)
(* variance = (n*Q2 - S*S)/(n*n), (std_dev/avg*100)^2 =                    *)
(* 10000*(n*Q2 - S*S)/(S*S).                                               *)
(* the variance taken around zero instead of around the mean *)
calculate_volatility_uncentred(price_history, ticker) ==
    IF ticker \notin DOMAIN price_history \/ Len(price_history[ticker]) < 2
    THEN [num |-> 0, den |-> 1]
    ELSE LET h == price_history[ticker]
             S == SumPrices(h)
         IN  IF S = 0
             THEN [num |-> 0, den |-> 1]
             ELSE [num |-> 10000 * Len(h) * SumSquares(h),
                   den |-> S * S]

(* lines 129-144 *)
calculate_volatility(price_history, ticker) ==
    IF ticker \notin DOMAIN price_history \/ Len(price_history[ticker]) < 2
    THEN [num |-> 0, den |-> 1]
    ELSE LET h == price_history[ticker]
             S == SumPrices(h)
         IN  IF S = 0
             THEN [num |-> 0, den |-> 1]
             ELSE [num |-> 10000 * (Len(h) * SumSquares(h) - S * S),
                   den |-> S * S]

(* volatility > 15 *)
VolatilityGT15(volatility) == volatility.num > 225 * volatility.den

-----------------------------------------------------------------------------
(* History *)

(* Python's lst[-k:] : the whole list for k = 0 (-0 is 0) or k >= len *)
LastSlice(lst, k) ==
    IF k = 0 \/ k >= Len(lst) THEN lst ELSE SubSeq(lst, Len(lst) - k + 1, Len(lst))

(* lines 116-127, for one ticker *)
record(price_history, ticker, price, timestamp, max_len) ==
    LET old == IF ticker \in DOMAIN price_history THEN price_history[ticker] ELSE <<>>
        appended == Append(old, [price |-> price, timestamp |-> timestamp])
    IN  IF Len(appended) > max_len THEN LastSlice(appended, max_len) ELSE appended

update_price_history(price_history, prices, timestamp, max_len) ==
    [t \in DOMAIN price_history \cup DOMAIN prices |->
        IF t \in DOMAIN prices
        THEN record(price_history, t, prices[t], timestamp, max_len)
        ELSE price_history[t]]

-----------------------------------------------------------------------------
(* Signals *)

(* the chain as three independent ifs: the last condition that holds wins *)
classify_last_wins(cfg, ticker, old_price, new_price, change, volatility, timestamp) ==
    LET base == [coin |-> ticker, old_price |-> old_price, new_price |-> new_price,
                 change |-> change, volatility |-> volatility,
                 timestamp |-> timestamp]
    IN  IF cfg.enable_volatility_tracking /\ VolatilityGT15(volatility)
        THEN <<base @@ [type |-> "VOLATILITY_ALERT", strength |-> "WARNING"]>>
        ELSE IF cfg.enable_surge_alerts /\ ChangeGE(change, cfg.surge_alert)
        THEN <<base @@ [type |-> "BUY_SIGNAL",
                        strength |-> IF ChangeGE(change, 20) THEN "STRONG"
                                                              ELSE "MODERATE"]>>
        ELSE IF ChangeLE(change, cfg.drop_alert)
        THEN <<base @@ [type |-> "SELL_SIGNAL",
                        strength |-> IF ChangeLE(change, -10) THEN "STRONG"
                                                               ELSE "MODERATE"]>>
        ELSE <<>>

(* the drop test as change < drop_alert *)
classify_strict_drop(cfg, ticker, old_price, new_price, change, volatility, timestamp) ==
    LET base == [coin |-> ticker, old_price |-> old_price, new_price |-> new_price,
                 change |-> change, volatility |-> volatility,
                 timestamp |-> timestamp]
    IN  IF ~ChangeGE(change, cfg.drop_alert)
        THEN <<base @@ [type |-> "SELL_SIGNAL",
                        strength |-> IF ChangeLE(change, -10) THEN "STRONG"
                                                               ELSE "MODERATE"]>>
        ELSE IF cfg.enable_surge_alerts /\ ChangeGE(change, cfg.surge_alert)
        THEN <<base @@ [type |-> "BUY_SIGNAL",
                        strength |-> IF ChangeGE(change, 20) THEN "STRONG"
                                                              ELSE "MODERATE"]>>
        ELSE IF cfg.enable_volatility_tracking /\ VolatilityGT15(volatility)
        THEN <<base @@ [type |-> "VOLATILITY_ALERT", strength |-> "WARNING"]>>
        ELSE <<>>

(* lines 160-202: the signals of one ticker, none or one *)
classify(cfg, ticker, old_price, new_price, change, volatility, timestamp) ==
    LET base == [coin |-> ticker, old_price |-> old_price, new_price |-> new_price,
                 change |-> change, volatility |-> volatility,
                 timestamp |-> timestamp]
    IN  IF ChangeLE(change, cfg.drop_alert)
        THEN <<base @@ [type |-> "SELL_SIGNAL",
                        strength |-> IF ChangeLE(change, -10) THEN "STRONG"
                                                               ELSE "MODERATE"]>>
        ELSE IF cfg.enable_surge_alerts /\ ChangeGE(change, cfg.surge_alert)
        THEN <<base @@ [type |-> "BUY_SIGNAL",
                        strength |-> IF ChangeGE(change, 20) THEN "STRONG"
                                                              ELSE "MODERATE"]>>
        ELSE IF cfg.enable_volatility_tracking /\ VolatilityGT15(volatility)
        THEN <<base @@ [type |-> "VOLATILITY_ALERT", strength |-> "WARNING"]>>
        ELSE <<>>

RECURSIVE signals_from(_, _, _, _, _)

(* the previous price read as previous_prices.get(ticker, 0), without the
   test of line 154 *)
RECURSIVE signals_from_default_zero(_, _, _, _, _)
signals_from_default_zero(i, cfg, st, prices, timestamp) ==
    IF i > Len(TickerOrder) THEN <<>>
    ELSE LET ticker == TickerOrder[i]
             old_price == IF ticker \in DOMAIN st.previous_prices
                          THEN st.previous_prices[ticker] ELSE 0
             mine == IF ticker \in DOMAIN prices
                     THEN classify(cfg, ticker, old_price, prices[ticker],
                              calculate_percentage_change(old_price, prices[ticker]),
                              calculate_volatility(st.price_history, ticker),
                              timestamp)
                     ELSE <<>>
         IN  mine \o signals_from_default_zero(i + 1, cfg, st, prices, timestamp)

(* the volatility taken over the history as it was before this cycle's
   observation *)
RECURSIVE signals_from_stale_window(_, _, _, _, _)
signals_from_stale_window(i, cfg, st, prices, timestamp) ==
    IF i > Len(TickerOrder) THEN <<>>
    ELSE LET ticker == TickerOrder[i]
             before == [t \in DOMAIN st.price_history |->
                           SubSeq(st.price_history[t], 1,
                                  Len(st.price_history[t]) - 1)]
             mine == IF ticker \in DOMAIN prices /\ ticker \in DOMAIN st.previous_prices
                     THEN classify(cfg, ticker, st.previous_prices[ticker],
                              prices[ticker],
                              calculate_percentage_change(
                                  st.previous_prices[ticker], prices[ticker]),
                              calculate_volatility(before, ticker),
                              timestamp)
                     ELSE <<>>
         IN  mine \o signals_from_stale_window(i + 1, cfg, st, prices, timestamp)

(* lines 153-207: the tickers of current_prices from the i-th on, in the order
   of the dict *)
signals_from(i, cfg, st, prices, timestamp) ==
    IF i > Len(TickerOrder) THEN <<>>
    ELSE LET ticker == TickerOrder[i]
             mine == IF ticker \in DOMAIN prices /\ ticker \in DOMAIN st.previous_prices
                     THEN classify(cfg, ticker, st.previous_prices[ticker],
                              prices[ticker],
                              calculate_percentage_change(
                                  st.previous_prices[ticker], prices[ticker]),
                              calculate_volatility(st.price_history, ticker),
                              timestamp)
                     ELSE <<>>
         IN  mine \o signals_from(i + 1, cfg, st, prices, timestamp)

(* the list generate_trading_signals returns *)
generate_trading_signals(cfg, st, prices, timestamp) ==
    IF st.previous_prices = EmptyMap THEN <<>>
    ELSE signals_from(1, cfg, st, prices, timestamp)

-----------------------------------------------------------------------------
(* Configuration *)

(* lines 35-52 *)
default_config ==
    [coins |-> TickerOrder,
     thresholds |-> [drop_alert |-> -5, surge_alert |-> 10,
                     volatility_window |-> 24],
     check_interval |-> 300,
     enable_surge_alerts |-> TRUE,
     enable_volatility_tracking |-> TRUE,
     max_history_length |-> 288]

Malformed == [malformed |-> TRUE]       \* the file is not JSON

(* what a configuration file may set a key to *)
FileThresholds ==
    [drop_alert |-> -3, surge_alert |-> 15, volatility_window |-> 12]

FileValue(key, thresholds) ==
    CASE key = "thresholds" -> thresholds
      [] key = "check_interval" -> 60
      [] key = "enable_surge_alerts" -> FALSE
      [] key = "enable_volatility_tracking" -> FALSE
      [] key = "max_history_length" -> 100

FileKeys == {"thresholds", "check_interval", "enable_surge_alerts",
             "enable_volatility_tracking", "max_history_length"}

(* the JSON objects of a configuration file: any of the keys, and under
   thresholds any of its fields *)
ConfigFiles ==
    {[key \in keys |-> FileValue(key, [f \in fields |-> FileThresholds[f]])] :
        keys \in SUBSET FileKeys, fields \in SUBSET DOMAIN FileThresholds}

(* line 59, dict.update: the keys of the file replace those of the defaults *)
update(defaults, loaded) ==
    [key \in DOMAIN defaults \cup DOMAIN loaded |->
        IF key \in DOMAIN loaded THEN loaded[key] ELSE defaults[key]]

(* lines 54-63 *)
load_config(file) ==
    IF file = NoFile \/ file = Malformed
    THEN default_config
    ELSE update(default_config, file)

-----------------------------------------------------------------------------
(* The process *)

Start(configs) ==
    /\ loaded_config = None
    /\ config \in configs
    /\ now = 1
    /\ state = FreshState(1)
    /\ disk = NoFile
    /\ current_prices = None
    /\ signals = <<>>
    /\ pc = "fetch"
    /\ exit_code = Running

Init == Start(Configs)

InitSignals == Start(SignalConfigs)

(* the default configuration, its history cap scaled to MaxCap *)
DefaultConfigs ==
    {c \in Configs : /\ c.enable_surge_alerts
                     /\ c.enable_volatility_tracking
                     /\ c.max_history_length = MaxCap}

InitDefault == Start(DefaultConfigs)

(* the failure of the fetch raised to run_agent instead of returned as None *)
FetchRaising(responses) ==
    /\ pc = "fetch"
    /\ \E fetched \in {None} \cup responses :
          /\ current_prices' = fetched
          /\ pc' = IF fetched = None THEN "except_error"
                   ELSE IF fetched = EmptyMap THEN "sleep" ELSE "record"
    /\ UNCHANGED <<loaded_config, config, state, disk, signals, now, exit_code>>

(* the fetched map tested with "is not None": an empty map starts a cycle *)
FetchTestingNone(responses) ==
    /\ pc = "fetch"
    /\ \E fetched \in {None} \cup responses :
          /\ current_prices' = fetched
          /\ pc' = IF fetched = None THEN "sleep" ELSE "record"
    /\ UNCHANGED <<loaded_config, config, state, disk, signals, now, exit_code>>

(* last_check stamped outside the if of line 290 *)
FetchStampingFailures(responses) ==
    /\ pc = "fetch"
    /\ \E fetched \in {None} \cup responses :
          /\ current_prices' = fetched
          /\ pc' = IF fetched = None \/ fetched = EmptyMap THEN "sleep" ELSE "record"
          /\ state' = IF fetched = None THEN [state EXCEPT !.last_check = now]
                                        ELSE state
    /\ UNCHANGED <<loaded_config, config, disk, signals, now, exit_code>>

(* lines 288-290 and 317-318: the fetch fails (None), or returns the prices of
   the ids it recognises, possibly of none; an empty map is falsy *)
Fetch(responses) ==
    /\ pc = "fetch"
    /\ \E fetched \in {None} \cup responses :
          /\ current_prices' = fetched
          /\ pc' = IF fetched = None \/ fetched = EmptyMap THEN "sleep" ELSE "record"
    /\ UNCHANGED <<loaded_config, config, state, disk, signals, now, exit_code>>

GetCurrentPrices == Fetch(Maps)

GetSignalPrices == Fetch(SignalMaps)

(* line 292 *)
UpdatePriceHistory ==
    /\ pc = "record"
    /\ state' = [state EXCEPT !.price_history =
                    update_price_history(@, current_prices, now,
                                         config.max_history_length)]
    /\ pc' = "signals"
    /\ UNCHANGED <<loaded_config, config, disk, current_prices, signals, now, exit_code>>

(* total_alerts counted once per cycle that signalled *)
GenerateTradingSignalsCountingCycles ==
    /\ pc = "signals"
    /\ LET new == generate_trading_signals(config, state, current_prices, now)
       IN  /\ signals' = new
           /\ state' = [state EXCEPT !.signals_generated = @ \o new,
                                     !.total_alerts =
                                         IF new = <<>> THEN @ ELSE @ + 1]
    /\ pc' = "display"
    /\ UNCHANGED <<loaded_config, config, disk, current_prices, now, exit_code>>

(* line 295 *)
GenerateTradingSignals ==
    /\ pc = "signals"
    /\ LET new == generate_trading_signals(config, state, current_prices, now)
       IN  /\ signals' = new
           /\ state' = [state EXCEPT !.signals_generated = @ \o new,
                                     !.total_alerts = @ + Len(new)]
    /\ pc' = "display"
    /\ UNCHANGED <<loaded_config, config, disk, current_prices, now, exit_code>>

(* lines 298-302 *)
DisplayStatus ==
    /\ pc = "display"
    /\ pc' = "update_prices"
    /\ UNCHANGED <<loaded_config, config, state, disk, current_prices, signals, now, exit_code>>

(* previous_prices.update(current_prices) *)
UpdatePreviousPricesMerging ==
    /\ pc = "update_prices"
    /\ state' = [state EXCEPT !.previous_prices =
                    [t \in DOMAIN @ \cup DOMAIN current_prices |->
                        IF t \in DOMAIN current_prices THEN current_prices[t]
                                                        ELSE @[t]]]
    /\ pc' = "update_check"
    /\ UNCHANGED <<loaded_config, config, disk, current_prices, signals, now, exit_code>>

(* line 305 *)
UpdatePreviousPrices ==
    /\ pc = "update_prices"
    /\ state' = [state EXCEPT !.previous_prices = current_prices]
    /\ pc' = "update_check"
    /\ UNCHANGED <<loaded_config, config, disk, current_prices, signals, now, exit_code>>

(* line 306 *)
UpdateLastCheck ==
    /\ pc = "update_check"
    /\ state' = [state EXCEPT !.last_check = now]
    /\ pc' = "save"
    /\ UNCHANGED <<loaded_config, config, disk, current_prices, signals, now, exit_code>>

(* lines 75-81: the write succeeds, or fails and is reported *)
save_state(ok) == IF ok THEN state ELSE disk

(* lines 309-316 *)
SaveState ==
    /\ pc = "save"
    /\ \E ok \in BOOLEAN : disk' = save_state(ok)
    /\ pc' = "sleep"
    /\ UNCHANGED <<loaded_config, config, state, current_prices, signals, now, exit_code>>

(* lines 321-322 *)
Sleep ==
    /\ pc = "sleep"
    /\ now < MaxCycles
    /\ now' = now + 1
    /\ pc' = "fetch"
    /\ UNCHANGED <<loaded_config, config, state, disk, current_prices, signals, exit_code>>

InLoop == pc \in {"fetch", "record", "signals", "display", "update_prices",
                  "update_check", "save", "sleep"}

(* line 324: Ctrl+C while the loop runs *)
KeyboardInterrupt ==
    /\ InLoop
    /\ pc' = "except_interrupt"
    /\ UNCHANGED <<loaded_config, config, state, disk, current_prices, signals, now, exit_code>>

(* line 336: a statement of the cycle raises, before it has changed anything *)
UnexpectedError ==
    /\ pc \in {"record", "signals", "display"}
    /\ pc' = "except_error"
    /\ UNCHANGED <<loaded_config, config, state, disk, current_prices, signals, now, exit_code>>

(* lines 325-334, then the script ends *)
ExceptKeyboardInterrupt ==
    /\ pc = "except_interrupt"
    /\ \E ok \in BOOLEAN : disk' = save_state(ok)
    /\ pc' = "stopped_by_user"
    /\ exit_code' = 0
    /\ UNCHANGED <<loaded_config, config, state, current_prices, signals, now>>

(* lines 337-338, then the script ends *)
ExceptException ==
    /\ pc = "except_error"
    /\ \E ok \in BOOLEAN : disk' = save_state(ok)
    /\ pc' = "stopped_by_error"
    /\ exit_code' = 0
    /\ UNCHANGED <<loaded_config, config, state, current_prices, signals, now>>

Exited == pc \in {"stopped_by_user", "stopped_by_error"}

(* agent_start_time set by every run of the constructor *)
load_state_restamping(file, t) ==
    IF file = NoFile THEN FreshState(t) ELSE [file EXCEPT !.agent_start_time = t]

(* lines 65-73 and 23-31 *)
load_state(file, t) == IF file = NoFile THEN FreshState(t) ELSE file

(* lines 341-344, 11-31: the script is started again, later *)
Restart ==
    /\ Exited
    /\ now < MaxCycles
    /\ now' = now + 1
    /\ state' = load_state(disk, now')
    /\ current_prices' = None
    /\ signals' = <<>>
    /\ pc' = "fetch"
    /\ exit_code' = Running
    /\ UNCHANGED <<loaded_config, config, disk>>

Next ==
    \/ GetCurrentPrices
    \/ UpdatePriceHistory
    \/ GenerateTradingSignals
    \/ DisplayStatus
    \/ UpdatePreviousPrices
    \/ UpdateLastCheck
    \/ SaveState
    \/ Sleep
    \/ KeyboardInterrupt
    \/ UnexpectedError
    \/ ExceptKeyboardInterrupt
    \/ ExceptException

Spec == Init /\ [][Next]_vars

(* lines 286-322: the thread of run_agent goes on to its next statement *)
LoopStep ==
    \/ GetCurrentPrices
    \/ UpdatePriceHistory
    \/ GenerateTradingSignals
    \/ DisplayStatus
    \/ UpdatePreviousPrices
    \/ UpdateLastCheck
    \/ SaveState
    \/ Sleep

SpecFair == InitDefault /\ [][Next]_vars /\ WF_vars(LoopStep)

(* the loop left undisturbed, over the wider feed and thresholds *)
NextSignals ==
    \/ GetSignalPrices
    \/ UpdatePriceHistory
    \/ GenerateTradingSignals
    \/ DisplayStatus
    \/ UpdatePreviousPrices
    \/ UpdateLastCheck
    \/ SaveState
    \/ Sleep

SpecSignals == InitSignals /\ [][NextSignals]_vars

(* lines 17 and 33-63: the constructor loads the configuration *)
InitConfig ==
    /\ loaded_config \in ConfigFiles \cup {NoFile, Malformed}
    /\ config = default_config
    /\ now = 1
    /\ state = FreshState(1)
    /\ disk = NoFile
    /\ current_prices = None
    /\ signals = <<>>
    /\ pc = "load_config"
    /\ exit_code = Running

LoadConfig ==
    /\ pc = "load_config"
    /\ config' = load_config(loaded_config)
    /\ pc' = "run_agent"
    /\ UNCHANGED <<loaded_config, state, disk, current_prices, signals, now,
                   exit_code>>

(* lines 278-283, outside the try: a key the banner reads is missing and the
   KeyError ends the process, or the loop is entered *)
RunAgentBanner ==
    /\ pc = "run_agent"
    /\ IF {"drop_alert", "surge_alert"} \subseteq DOMAIN config.thresholds
       THEN pc' = "enter_loop" /\ exit_code' = exit_code
       ELSE pc' = "key_error" /\ exit_code' = 1
    /\ UNCHANGED <<loaded_config, config, state, disk, current_prices, signals,
                   now>>

NextConfig ==
    \/ LoadConfig
    \/ RunAgentBanner

SpecConfig == InitConfig /\ [][NextConfig]_vars

(* the process and its later runs *)
NextRestart == Next \/ Restart

SpecRestart == InitDefault /\ [][NextRestart]_vars

-----------------------------------------------------------------------------
(* Properties *)

Log == state.signals_generated

HistoryOf(price_history, t) ==
    IF t \in DOMAIN price_history THEN price_history[t] ELSE <<>>

(* the last n elements of seq, for n <= Len(seq) *)
LastN(seq, n) == SubSeq(seq, Len(seq) - n + 1, Len(seq))

(* the signals a step appended to the log *)
Added(before, after) == SubSeq(after, Len(before) + 1, Len(after))

(* C1: in every state reached by successful cycles, under every
   max_history_length a configuration may hold, the stored history of every
   ticker has at most max_history_length entries. *)
C1_HistoryWithinCap ==
    \A t \in DOMAIN state.price_history :
        Len(state.price_history[t]) <= config.max_history_length

(* C2: eviction is strict FIFO.  Every recording step leaves, of the retained
   history followed by the new observation, exactly the last
   max_history_length entries (all of them while there are no more than
   that), in insertion order; so after n > max_history_length observations
   the retained history is the last max_history_length recorded ones. *)
C2_StrictFIFO ==
    [][(pc = "record" /\ pc' = "signals") =>
        \A t \in DOMAIN current_prices :
            LET all == Append(HistoryOf(state.price_history, t),
                              [price |-> current_prices[t], timestamp |-> now])
                keep == IF Len(all) > config.max_history_length
                        THEN config.max_history_length ELSE Len(all)
            IN  state'.price_history[t] = LastN(all, keep)]_vars

SellHolds(s) ==
    ChangeLE(calculate_percentage_change(s.old_price, s.new_price),
             config.drop_alert)

BuyHolds(s) ==
    /\ config.enable_surge_alerts
    /\ ChangeGE(calculate_percentage_change(s.old_price, s.new_price),
                config.surge_alert)

(* C3: a cycle appends at most one signal per ticker to signals_generated,
   and the kind follows Sell over Buy over VolatilityWarning: no
   VOLATILITY_ALERT where the Sell or the enabled Buy condition holds, no
   BUY_SIGNAL where the Sell condition holds. *)
C3_OneSignalByPriority ==
    /\ \A i, j \in DOMAIN Log :
          (Log[i].coin = Log[j].coin /\ Log[i].timestamp = Log[j].timestamp)
              => i = j
    /\ \A i \in DOMAIN Log :
          /\ Log[i].type = "VOLATILITY_ALERT"
                => ~SellHolds(Log[i]) /\ ~BuyHolds(Log[i])
          /\ Log[i].type = "BUY_SIGNAL" => ~SellHolds(Log[i])

(* a Sell emitted although the volatility threshold is crossed as well, in a
   cycle that emitted a signal for the other ticker too *)
C3_Witness ==
    \E i, j \in DOMAIN Log :
        /\ Log[i].type = "SELL_SIGNAL"
        /\ config.enable_volatility_tracking
        /\ VolatilityGT15(Log[i].volatility)
        /\ Log[j].timestamp = Log[i].timestamp
        /\ Log[j].coin # Log[i].coin

(* C4: the classification step appends no signal for a ticker that has no
   entry in previous_prices when the cycle starts, and total_alerts grows by
   the number of tickers with an entry that got a signal, by nothing else. *)
C4_NoSignalOnFirstObservation ==
    [][(pc = "signals" /\ pc' = "display") =>
        LET added == Added(Log, state'.signals_generated)
            known == DOMAIN state.previous_prices
        IN  /\ \A i \in DOMAIN added : added[i].coin \in known
            /\ state'.total_alerts - state.total_alerts =
                   Cardinality({t \in known :
                       \E i \in DOMAIN added : added[i].coin = t})]_vars

(* a cycle that emitted a signal and fetched a ticker seen for the first time *)
C4_Witness ==
    /\ pc = "display"
    /\ signals # <<>>
    /\ \E t \in DOMAIN current_prices :
          /\ t \notin DOMAIN state.previous_prices
          /\ \A i \in DOMAIN Log : Log[i].coin # t

(* C5: a cycle whose fetch fails leaves previous_prices, price_history,
   signals_generated, total_alerts and last_check as they were: neither the
   failing fetch nor the rest of that cycle changes self.state. *)
C5_FailedFetchChangesNothing ==
    [][((pc = "fetch" /\ current_prices' = None)
           \/ (pc = "sleep" /\ current_prices = None))
        => state' = state]_vars

(* a failed fetch after a successful cycle *)
C5_Witness ==
    /\ pc = "sleep"
    /\ current_prices = None
    /\ state.last_check # Never
    /\ state.previous_prices # EmptyMap

(* C6: for a ticker with a known previous price the emitted signal is that of
   the reference chain: Sell iff change <= drop_alert (Strong iff change <=
   -10), otherwise Buy iff surge alerts are enabled and change >= surge_alert
   (Strong iff change >= 20), otherwise VolatilityWarning iff volatility
   tracking is enabled and volatility > 15, otherwise none; with drop_alert
   -5, 100 -> 94 is Sell/Moderate and 100 -> 89 Sell/Strong, and with
   surge_alert 10, 50 -> 61 is Buy/Strong. *)
C6_ReferenceChain ==
    pc = "display" =>
        /\ Len(Log) >= Len(signals)
        /\ LastN(Log, Len(signals)) = signals
        /\ \A t \in DOMAIN current_prices \cap DOMAIN state.previous_prices :
            LET old == state.previous_prices[t]
                new == current_prices[t]
                change == calculate_percentage_change(old, new)
                volatility == calculate_volatility(state.price_history, t)
                sell == ChangeLE(change, config.drop_alert)
                buy == /\ ~sell
                       /\ config.enable_surge_alerts
                       /\ ChangeGE(change, config.surge_alert)
                warn == /\ ~sell
                        /\ ~buy
                        /\ config.enable_volatility_tracking
                        /\ VolatilityGT15(volatility)
                mine == SelectSeq(signals, LAMBDA s : s.coin = t)
                Is(type, strength) ==
                    /\ Len(mine) = 1
                    /\ mine[1].type = type
                    /\ mine[1].strength = strength
            IN  /\ sell <=> (mine # <<>> /\ mine[1].type = "SELL_SIGNAL")
                /\ buy <=> (mine # <<>> /\ mine[1].type = "BUY_SIGNAL")
                /\ warn <=> (mine # <<>> /\ mine[1].type = "VOLATILITY_ALERT")
                /\ sell => Is("SELL_SIGNAL", IF ChangeLE(change, -10)
                                             THEN "STRONG" ELSE "MODERATE")
                /\ buy => Is("BUY_SIGNAL", IF ChangeGE(change, 20)
                                           THEN "STRONG" ELSE "MODERATE")
                /\ warn => Is("VOLATILITY_ALERT", "WARNING")
                /\ ~(sell \/ buy \/ warn) => mine = <<>>
                /\ (config.drop_alert = -5 /\ old = 100 /\ new = 94)
                       => Is("SELL_SIGNAL", "MODERATE")
                /\ (config.drop_alert = -5 /\ old = 100 /\ new = 89)
                       => Is("SELL_SIGNAL", "STRONG")
                /\ (config.drop_alert = -5 /\ config.surge_alert = 10
                        /\ config.enable_surge_alerts /\ old = 50 /\ new = 61)
                       => Is("BUY_SIGNAL", "STRONG")

(* with the default thresholds 50 -> 61 was a strong Buy, and 61 -> 50 is now
   a strong Sell *)
C6_Witness ==
    /\ pc = "display"
    /\ config.drop_alert = -5
    /\ config.surge_alert = 10
    /\ Len(Log) = 2
    /\ Log[1].type = "BUY_SIGNAL"
    /\ Log[1].strength = "STRONG"
    /\ Log[1].old_price = 50
    /\ Log[1].new_price = 61
    /\ Log[2].type = "SELL_SIGNAL"
    /\ Log[2].strength = "STRONG"
    /\ signals = <<Log[2]>>

(* every fetched ticker's newest observation is the one of this cycle *)
RecordedThisCycle ==
    \A t \in DOMAIN current_prices :
        LET h == HistoryOf(state.price_history, t)
        IN  /\ h # <<>>
            /\ h[Len(h)] = [price |-> current_prices[t], timestamp |-> now]

(* the cycle's signals are those of the prices fetched, and are logged *)
ClassifiedThisCycle ==
    /\ signals = generate_trading_signals(config, state, current_prices, now)
    /\ Len(Log) >= Len(signals)
    /\ LastN(Log, Len(signals)) = signals

Fetched(prices) == prices # None /\ prices # EmptyMap

(* C7: after every successful cycle previous_prices is exactly the fetched
   map and last_check is that cycle's time; previous_prices changes only in
   the replacing step, after the cycle's history has been recorded and its
   signals classified, and last_check only in the step after that one. *)
C7_PreviousPricesReplacedLast ==
    [][/\ ((pc' = "save" \/ (pc' = "sleep" /\ Fetched(current_prices')))
              => /\ state'.previous_prices = current_prices'
                 /\ state'.last_check = now')
       /\ (state'.previous_prices # state.previous_prices
              => /\ pc = "update_prices"
                 /\ RecordedThisCycle
                 /\ ClassifiedThisCycle)
       /\ (state'.last_check # state.last_check
              => /\ pc = "update_check"
                 /\ RecordedThisCycle
                 /\ state.previous_prices = current_prices)]_vars

(* a successful cycle whose fetch lacked a ticker that had a previous price *)
C7_Witness ==
    /\ pc = "save"
    /\ \E t \in DOMAIN state.price_history :
          /\ t \notin DOMAIN state.previous_prices
          /\ disk # NoFile
          /\ t \in DOMAIN disk.previous_prices

(* C8: total_alerts is the number of entries of signals_generated in every
   state, and every step leaves the log it found as a prefix of the log it
   leaves. *)
C8_AlertsCountTheLog ==
    [][/\ state.total_alerts = Len(Log)
       /\ state'.total_alerts = Len(state'.signals_generated)
       /\ Len(state'.signals_generated) >= Len(Log)
       /\ SubSeq(state'.signals_generated, 1, Len(Log)) = Log]_vars

(* the third cycle added to a log the second one began, two signals at once *)
C8_Witness ==
    /\ Len(Log) >= 3
    /\ state.total_alerts = Len(Log)
    /\ Log[1].timestamp # Log[Len(Log)].timestamp
    /\ Log[Len(Log) - 1].timestamp = Log[Len(Log)].timestamp

(* the steps of the cycle of `now`, as far as s shows them *)
CycleApplied(s) ==
    /\ s.last_check = now
    /\ s.previous_prices = current_prices
    /\ \A t \in DOMAIN current_prices :
          \E i \in DOMAIN HistoryOf(s.price_history, t) :
              s.price_history[t][i].timestamp = now

CycleNotBegun(s) ==
    /\ s.last_check # now
    /\ \A t \in DOMAIN s.price_history :
          \A i \in DOMAIN s.price_history[t] :
              s.price_history[t][i].timestamp # now
    /\ \A i \in DOMAIN s.signals_generated :
          s.signals_generated[i].timestamp # now

(* C9: an interrupt does not abort the cycle in progress: the state the
   final save persists has all of the cycle's steps applied (history record,
   classification, previous_prices, last_check) or none of them. *)
C9_InterruptKeepsCyclesWhole ==
    (pc = "stopped_by_user" /\ disk # NoFile)
        => CycleApplied(disk) \/ CycleNotBegun(disk)

(* C10: an unexpected failure during a cycle ends the process with a
   non-zero exit status, an interrupt with status 0. *)
C10_ExitStatus ==
    /\ pc = "stopped_by_error" => exit_code # 0
    /\ pc = "stopped_by_user" => exit_code = 0

(* the write of the previous cycle failed: self.state is as that cycle left
   it and is not what the file holds *)
PreviousWriteFailed == now > 1 /\ state.last_check = now - 1 /\ disk # state

(* C11: when save_state fails at the end of a cycle, a write is attempted
   again in the cycle that follows, whatever its fetch returns: that cycle
   never goes from its fetch straight to the sleep, past save_state. *)
C11_WriteRetriedNextCycle ==
    [][(pc = "fetch" /\ PreviousWriteFailed) => pc' # "sleep"]_vars

(* the fields of the file, none for a file that is missing or not JSON *)
FileFields ==
    IF loaded_config = NoFile \/ loaded_config = Malformed
    THEN EmptyMap ELSE loaded_config

(* C13: for every content of the configuration file, load_config returns a
   configuration in which every field the file has carries the file's value
   and every field it lacks, the fields of thresholds included, carries the
   default; a malformed file yields the defaults. *)
C13_FieldByFieldOverlay ==
    pc # "load_config" =>
        /\ \A key \in FileKeys \ {"thresholds"} :
              config[key] = IF key \in DOMAIN FileFields
                            THEN FileFields[key] ELSE default_config[key]
        /\ config.coins = default_config.coins
        /\ \A f \in DOMAIN default_config.thresholds :
              /\ f \in DOMAIN config.thresholds
              /\ config.thresholds[f] =
                     IF /\ "thresholds" \in DOMAIN FileFields
                        /\ f \in DOMAIN FileFields.thresholds
                     THEN FileFields.thresholds[f]
                     ELSE default_config.thresholds[f]

(* the cycle of time k ends after a failure it recovered from: its fetch
   failed, or its write did *)
RecoveredFailure(k) ==
    /\ pc = "sleep"
    /\ now = k
    /\ \/ current_prices = None
       \/ Fetched(current_prices) /\ disk # state

(* C12: after a recovered failure the agent keeps running: the next cycle is
   eventually started unless an interrupt stops the loop, and from the
   statements where a failure is recovered (the fetch, the save, the sleep)
   the loop is left by an interrupt only.  The first cycle starts from a
   state and a configuration that fell back to the defaults. *)
C12_KeepsRunning ==
    /\ (\E k \in 1..(MaxCycles - 1) : RecoveredFailure(k))
          ~> (pc = "fetch" \/ pc = "except_interrupt")
    /\ [][/\ (pc \in {"fetch", "save", "sleep"} /\ ~InLoop')
                => pc' = "except_interrupt"
          /\ (pc = "sleep" /\ InLoop')
                => pc' = "fetch" /\ now' = now + 1]_vars

(* the third cycle starts after a cycle whose write failed and one whose
   fetch failed *)
C12_Witness ==
    /\ pc = "fetch"
    /\ now = 3
    /\ current_prices = None
    /\ disk = NoFile
    /\ state.last_check = 1

(* C14: agent_start_time is set when the state is first initialized and
   keeps that value through every cycle, fetch failure, save, interrupt and
   error, and through every restart that restores the persisted state; only
   a restart that finds no state to load initializes it anew. *)
C14_StartTimeKept ==
    [][/\ state.agent_start_time \in 1..now
       /\ \/ state'.agent_start_time = state.agent_start_time
          \/ Exited /\ pc' = "fetch" /\ disk = NoFile]_vars

(* a later run of the script, on the state an interrupted cycle persisted *)
C14_Witness ==
    /\ pc = "fetch"
    /\ now > 1
    /\ state.agent_start_time = 1
    /\ state = disk
    /\ \E t \in DOMAIN state.price_history :
          \E i \in DOMAIN state.price_history[t] :
              state.price_history[t][i].timestamp > state.last_check

(* the tickers the cycle compares with a previous price *)
Compared == DOMAIN current_prices \cap DOMAIN state.previous_prices

(* the signals of the cycle for ticker t *)
SignalsOf(t) == {i \in DOMAIN signals : signals[i].coin = t}

(* c is the value the contract gives for the change from old to new *)
IsChange(old, new, c) ==
    /\ c.den # 0
    /\ old = 0 => c.num = 0
    /\ old = new => c.num = 0
    /\ old # 0 => c.num * old = (new - old) * 100 * c.den

(* C15: the percentage change from 0 is 0 for every new price, the change
   from a price to itself is 0, and otherwise it is (new - old) / old * 100;
   for every pair of prices a cycle compares and displays, and in every
   signal logged. *)
C15_PercentageChange ==
    /\ pc = "display" =>
          \A t \in Compared :
              IsChange(state.previous_prices[t], current_prices[t],
                       calculate_percentage_change(state.previous_prices[t],
                                                   current_prices[t]))
    /\ \A i \in DOMAIN Log :
          IsChange(Log[i].old_price, Log[i].new_price, Log[i].change)

(* a price of 100 compared with a previous price of 0, after a cycle that
   signalled a change that is not 0 *)
C15_Witness ==
    /\ pc = "display"
    /\ \E t \in Compared : state.previous_prices[t] = 0 /\ current_prices[t] = 100
    /\ \E i \in DOMAIN Log : Log[i].change.num # 0

AllEqualNonzero(h) ==
    /\ Len(h) >= 2
    /\ h[1].price # 0
    /\ \A i \in DOMAIN h : h[i].price = h[1].price

(* the situations in which the volatility is 0 by contract *)
NoVolatility(h) == Len(h) < 2 \/ SumPrices(h) = 0 \/ AllEqualNonzero(h)

(* C16: the volatility of a ticker is 0 when the ticker is unseen or has
   fewer than 2 retained observations, when the mean of its retained prices
   is 0, and when its 2 or more retained prices are equal and not 0; no
   VOLATILITY_ALERT is emitted for a ticker in one of these situations. *)
C16_ZeroVolatility ==
    /\ \A t \in Tickers :
          NoVolatility(HistoryOf(state.price_history, t)) =>
              /\ calculate_volatility(state.price_history, t).num = 0
              /\ calculate_volatility(state.price_history, t).den # 0
    /\ pc = "display" =>
          \A i \in DOMAIN signals :
              NoVolatility(HistoryOf(state.price_history, signals[i].coin)) =>
                  /\ signals[i].type # "VOLATILITY_ALERT"
                  /\ signals[i].volatility.num = 0

(* with tracking enabled, a cycle classified a ticker on a constant history
   and did not warn, after a cycle that warned of its volatility *)
C16_Witness ==
    /\ pc = "display"
    /\ config.enable_volatility_tracking
    /\ \E t \in Compared :
          /\ AllEqualNonzero(HistoryOf(state.price_history, t))
          /\ SignalsOf(t) = {}
    /\ \E i \in DOMAIN Log : Log[i].type = "VOLATILITY_ALERT"

(* C17: when a ticker's previous price is 0 its change is 0 and the cycle
   emits no signal of any kind for it, whatever the new price and the
   thresholds (drop_alert negative, surge_alert positive). *)
C17_ZeroBaselineNoSignal ==
    pc = "display" =>
        \A t \in Compared :
            state.previous_prices[t] = 0 =>
                /\ calculate_percentage_change(0, current_prices[t]).num = 0
                /\ SignalsOf(t) = {}

(* C17, amended: when a ticker's previous price is 0 its change is 0 and the
   cycle emits no SELL_SIGNAL and no BUY_SIGNAL for it; it emits a
   VOLATILITY_ALERT for it exactly when volatility tracking is enabled and
   the volatility of its retained history is above 15. *)
C17_ZeroBaselineNoMoveSignal ==
    pc = "display" =>
        \A t \in Compared :
            state.previous_prices[t] = 0 =>
                /\ calculate_percentage_change(0, current_prices[t]).num = 0
                /\ \A i \in SignalsOf(t) :
                      /\ signals[i].type = "VOLATILITY_ALERT"
                      /\ signals[i].change.num = 0
                /\ SignalsOf(t) # {} <=>
                      /\ config.enable_volatility_tracking
                      /\ VolatilityGT15(
                             calculate_volatility(state.price_history, t))

(* a price of 100 after a price of 0, warned of for its volatility *)
C17_Witness ==
    /\ pc = "display"
    /\ \E i \in DOMAIN signals :
          /\ signals[i].old_price = 0
          /\ signals[i].new_price = 100
          /\ signals[i].type = "VOLATILITY_ALERT"
          /\ config.drop_alert < 0
          /\ config.surge_alert > 0

(* C18: in a successful cycle every fetched ticker's observation is recorded,
   and its history trimmed, before any ticker is classified; the volatility a
   ticker is classified with is that of its retained history including the
   price of this cycle, and its change is taken against the price of the
   previous cycle. *)
C18_RecordedBeforeClassified ==
    /\ pc = "signals" =>
          /\ RecordedThisCycle
          /\ \A i \in DOMAIN Log : Log[i].timestamp # now
    /\ pc = "display" =>
          /\ RecordedThisCycle
          /\ \A i \in DOMAIN signals :
                LET s == signals[i]
                    h == HistoryOf(state.price_history, s.coin)
                IN  /\ s.timestamp = now
                    /\ s.coin \in Compared
                    /\ s.new_price = current_prices[s.coin]
                    /\ h[Len(h)].price = s.new_price
                    /\ s.volatility = calculate_volatility(state.price_history, s.coin)
                    /\ s.old_price = state.previous_prices[s.coin]
                    /\ state.last_check < now
                    /\ s.change = calculate_percentage_change(s.old_price, s.new_price)

(* a drop classified on the trimmed two-price window that holds the new
   price: its volatility is not that of the window before the cycle *)
C18_Witness ==
    /\ pc = "display"
    /\ config.max_history_length = 2
    /\ now = 3
    /\ \E i \in DOMAIN signals :
          LET h == HistoryOf(state.price_history, signals[i].coin)
          IN  /\ Len(h) = 2
              /\ h[1].price = signals[i].old_price
              /\ signals[i].type = "SELL_SIGNAL"
              /\ signals[i].volatility.num # 0
              /\ signals[i].volatility = calculate_volatility(state.price_history,
                                                              signals[i].coin)

(* previous_prices[t] is the price of the newest entry of t's history *)
BaselinesAreNewest(s) ==
    \A t \in DOMAIN s.previous_prices :
        LET h == HistoryOf(s.price_history, t)
        IN  h # <<>> /\ h[Len(h)].price = s.previous_prices[t]

(* C19: in every persisted state and in every state between two cycles, each
   ticker of previous_prices has a non-empty history whose newest entry holds
   previous_prices[ticker]. *)
C19_BaselineIsNewestEntry ==
    /\ disk # NoFile => BaselinesAreNewest(disk)
    /\ pc \in {"fetch", "sleep"} => BaselinesAreNewest(state)

(* C20: a fetch that returns an empty map is handled as a failed fetch: the
   cycle goes straight to the sleep, and up to the next fetch the state in
   memory (history, log, previous_prices, last_check) and the state file are
   left as they were. *)
C20_EmptyMapIsAFailure ==
    [][/\ (pc = "fetch" /\ current_prices' = EmptyMap /\ pc' # "except_interrupt")
            => pc' = "sleep" /\ state' = state /\ disk' = disk
       /\ (pc = "sleep" /\ current_prices = EmptyMap /\ pc' # "except_interrupt")
            => pc' = "fetch" /\ state' = state /\ disk' = disk]_vars

(* the sleep of a cycle that fetched an empty map, after a successful cycle *)
C20_Witness ==
    /\ pc = "sleep"
    /\ current_prices = EmptyMap
    /\ state.last_check # Never
    /\ state.last_check < now
    /\ disk = state

====
